---- MODULE Spec2Model ----
(***************************************************************************)
(* A model of the checkpoint converter weights2megatron/weights2megatron.py *)
(* and of the dataset pre-tokenizer oa/pretokenize.py.                      *)
(*                                                                          *)
(*   Spec       tokenize_dataset of oa/pretokenize.py (one call)            *)
(*   SpecStats  a TokenStats object under arbitrary add / skip calls        *)
(*   SpecMain   the command line and main of weights2megatron.py            *)
(*   SpecQkv    llama_to_megatron's per-layer query_key_value fusion        *)
(*                                                                          *)
(* Python values are modelled as follows.  A str is the sequence of its     *)
(* characters; the markers <|im_start|>, <|im_end|> and the role words are  *)
(* single symbols of that sequence, since no code here looks inside them.   *)
(* An Optional value is None == <<>> or Some(x) == <<x>>.                    *)
(***************************************************************************)
EXTENDS Integers, Sequences, FiniteSets, TLC

VARIABLES
    \* ---- oa/pretokenize.py: tokenize_dataset ----
    pc,                 \* "start", "loop", "done", "raised"
    error,              \* the exception that ended the call, "" if none
    dataset_len,        \* len(dataset)
    max_count,          \* Optional int
    min_assistant_tokens, \* Optional int
    check_tokenization, \* bool
    write_json,         \* bool
    total_stats,        \* TokenStats
    per_dataset_stats,  \* list[TokenStats]
    cumulative_sizes,   \* list[int]
    subset_index,
    i,                  \* number of samples taken from enumerate(dataset)
    messages,           \* the loop's current sample
    tokens,
    role_lables,
    num_assistant_tokens,
    token_writer,       \* DatasetWriter(feature="text"): items, finalized
    role_writer,        \* DatasetWriter(feature="role"): items, finalized
    jsonl_file,         \* None, or the lines written and whether it is closed
    outcome,            \* history: how the latest iteration ended: "none",
                        \* "accepted", "skipped", "assert_failed", "index_error"
    \* ---- oa/pretokenize.py: TokenStats on its own ----
    stats,              \* a TokenStats object
    added,              \* history: the lengths passed to add, in order
    skipped,            \* history: the lengths passed to skip, in order
    \* ---- weights2megatron/weights2megatron.py: command line and main ----
    w_pc,               \* "cli", "verify", "main", "convert", "save",
                        \* "tokenizer", "done", "exit"
    w_error,            \* the exception that ended the run, "" if none
    argv_model,         \* the positional argument model
    argv_size,          \* --size
    argv_out,           \* --out: Optional path
    w_existing,         \* what the file system holds at the output path before
                        \* the run: "absent", "empty", "checkpoint"
    fs,                 \* the file system: path -> directory or file content
    w_fetched,          \* whether pretrained weights have been fetched
    llama_source,       \* what merge_llama reports: "meta" or "hf"; "" unset
    megatron_weights,   \* the converted state dict, None before conversion
    w_args,             \* the args dict of main, None before it is built
    \* ---- weights2megatron/weights2megatron.py: llama_to_megatron ----
    q_pc,               \* "start", "layers", "done", "raised"
    source,             \* "meta" or "hf"
    n_layer,
    n_heads,
    n_kv_heads,
    n_hidden_per_head,
    weights,            \* the keys the input state dict still holds
    layer,              \* the next layer of the loop
    transformer,        \* per converted layer, the tensors of the result
    independent         \* the weights independent of layers, None before set

tokVars == <<pc, error, dataset_len, max_count, min_assistant_tokens,
             check_tokenization, write_json, total_stats, per_dataset_stats,
             cumulative_sizes, subset_index, i, messages, tokens, role_lables,
             num_assistant_tokens, token_writer, role_writer, jsonl_file,
             outcome>>
statVars == <<stats, added, skipped>>
mainVars == <<w_pc, w_error, argv_model, argv_size, argv_out, w_existing, fs,
              w_fetched, llama_source, megatron_weights, w_args>>
qkvVars == <<q_pc, source, n_layer, n_heads, n_kv_heads, n_hidden_per_head,
             weights, layer, transformer, independent>>
vars == <<tokVars, statVars, mainVars, qkvVars>>

\* ------------------------------------------------------------------------
\* Bounds
\* ------------------------------------------------------------------------
MaxLen == 2         \* len(dataset) is at most this
MaxSubsets == 3     \* a ConcatDataset has at most this many sub-datasets
MaxCount == 1       \* --max_count is None or 0..MaxCount
MaxCalls == 4       \* add / skip calls on the lone TokenStats object
MaxTokens == 3      \* length of a token list passed to add / skip there
MaxHeads == 4       \* attention heads of the scaled-down llama configurations
MaxHeadDim == 2     \* rows of one head (hidden // n_heads) there
MaxLayers == 2      \* layers there

\* ------------------------------------------------------------------------
\* Python helpers
\* ------------------------------------------------------------------------
None == <<>>
Some(x) == <<x>>
IsNone(o) == o = <<>>
Val(o) == o[1]
Min(a, b) == IF a < b THEN a ELSE b

RECURSIVE Sum(_)
Sum(s) == IF s = <<>> THEN 0 ELSE Head(s) + Sum(Tail(s))

RECURSIVE Join(_)
\* "".join(parts)
Join(parts) == IF parts = <<>> THEN <<>> ELSE Head(parts) \o Join(Tail(parts))

\* ------------------------------------------------------------------------
\* Encoder.encode_text.  The tokenizer is an external library; it is modelled
\* by a greedy longest-match tokenizer over a vocabulary in which every symbol
\* is a token and the pair "a","b" merges into one token, so that tokenizing
\* a text is not tokenizing its pieces one by one.
\* ------------------------------------------------------------------------
IMS == "<|im_start|>"
IME == "<|im_end|>"
NL == "\n"

Vocab == (IMS :> 1) @@ (IME :> 2) @@ (NL :> 3) @@ ("system" :> 4) @@
         ("user" :> 5) @@ ("assistant" :> 6) @@ ("a" :> 7) @@ ("b" :> 8) @@
         ("ab" :> 9)

RECURSIVE encode_text(_)
encode_text(text) ==
    IF text = <<>> THEN <<>>
    ELSE IF Len(text) >= 2 /\ text[1] = "a" /\ text[2] = "b"
         THEN <<Vocab["ab"]>> \o encode_text(SubSeq(text, 3, Len(text)))
         ELSE <<Vocab[text[1]]>> \o encode_text(Tail(text))

\* ------------------------------------------------------------------------
\* Samples: DatasetEntrySft, DatasetEntryLm, or a list of alternating texts
\* ------------------------------------------------------------------------
Msg(r, t) == [role |-> r, text |-> t]
Sft(s, c) == [kind |-> "sft", system_message |-> s, conversation |-> c,
              text |-> <<>>, pairs |-> <<>>]
Lm(t) == [kind |-> "lm", system_message |-> <<>>, conversation |-> <<>>,
          text |-> t, pairs |-> <<>>]
Pairs(p) == [kind |-> "pairs", system_message |-> <<>>, conversation |-> <<>>,
             text |-> <<>>, pairs |-> p]
NoSample == [kind |-> "none", system_message |-> <<>>, conversation |-> <<>>,
             text |-> <<>>, pairs |-> <<>>]

Conversations ==
    { <<Msg("prompter", <<"a">>)>>,
      <<Msg("prompter", <<"a">>), Msg("assistant", <<"a">>)>>,
      <<Msg("prompter", <<"a", "b">>), Msg("assistant", <<"b", "a">>)>> }
SftEntries ==
    { Sft(<<>>, c) : c \in Conversations }
      \cup { Sft(<<"a">>, <<Msg("prompter", <<"a">>), Msg("assistant", <<"a">>)>>) }
LmEntries == { Lm(t) : t \in { <<>>, <<"a">>, <<"a", "b">> } }
PairLists == { Pairs(<<<<"a">>, <<"b", "a">>>>) }
Samples == SftEntries \cup LmEntries \cup PairLists

\* ------------------------------------------------------------------------
\* format_pairs, format_sft_entry, format_conversation
\* ------------------------------------------------------------------------
role_names == <<"user", "assistant">>
role_ids == <<1, 2>>
IntRole_System == 0
IntRole_Prompter == 1
IntRole_Assistant == 2
LmRole == 3

format_pairs(pairs) ==
    [turns |-> [k \in 1..Len(pairs) |->
                   <<IMS, role_names[((k - 1) % 2) + 1], NL>> \o pairs[k] \o <<IME, NL>>],
     roles |-> [k \in 1..Len(pairs) |-> role_ids[((k - 1) % 2) + 1]]]

RECURSIVE format_turns(_)
format_turns(conversation) ==
    IF conversation = <<>> THEN [turns |-> <<>>, roles |-> <<>>]
    ELSE LET m == Head(conversation)
             rest == format_turns(Tail(conversation))
         IN  IF m.role = "prompter"
             THEN [turns |-> <<<<IMS, "user", NL>> \o m.text \o <<IME, NL>>>> \o rest.turns,
                   roles |-> <<IntRole_Prompter>> \o rest.roles]
             ELSE IF m.role = "assistant"
             THEN [turns |-> <<<<IMS, "assistant", NL>> \o m.text \o <<IME, NL>>>> \o rest.turns,
                   roles |-> <<IntRole_Assistant>> \o rest.roles]
             ELSE rest

format_sft_entry(entry) ==
    LET conv == format_turns(entry.conversation)
    IN  IF Len(entry.system_message) > 0
        THEN [turns |-> <<<<IMS, "system", NL>> \o entry.system_message \o <<IME, NL>>>>
                          \o conv.turns,
              roles |-> <<IntRole_System>> \o conv.roles]
        ELSE conv

\* For a DatasetEntryLm the first component is the str messages.text itself,
\* not a list holding it: iterating it yields its characters, and joining it
\* yields the text.  It is modelled as the sequence of its one-character strs.
format_conversation(msgs) ==
    IF msgs.kind = "sft" THEN format_sft_entry(msgs)
    ELSE IF msgs.kind = "lm"
         THEN [turns |-> [k \in 1..Len(msgs.text) |-> <<msgs.text[k]>>],
               roles |-> <<LmRole>>]
         ELSE format_pairs(msgs.pairs)

\* ------------------------------------------------------------------------
\* TokenStats
\* ------------------------------------------------------------------------
TokenStats(total) ==
    [skipped_samples |-> 0, skipped_tokens |-> 0, total_samples |-> total,
     min_tokens |-> None, max_tokens |-> 0,
     accepted_samples |-> 0, accepted_tokens |-> 0]

processed_samples(self) == self.accepted_samples + self.skipped_samples

skip(self, toks) ==
    [self EXCEPT !.skipped_samples = @ + 1,
                 !.skipped_tokens = Len(toks)]

\* add with the comparison of the minimum turned around.
add_flipped_min(self, toks) ==
    LET l == Len(toks)
    IN  [self EXCEPT !.accepted_samples = @ + 1,
                     !.accepted_tokens = @ + l,
                     !.min_tokens = IF IsNone(@) \/ Val(@) < l THEN Some(l) ELSE @,
                     !.max_tokens = IF @ < l THEN l ELSE @]

add(self, toks) ==
    LET l == Len(toks)
    IN  [self EXCEPT !.accepted_samples = @ + 1,
                     !.accepted_tokens = @ + l,
                     !.min_tokens = IF IsNone(@) \/ Val(@) > l THEN Some(l) ELSE @,
                     !.max_tokens = IF @ < l THEN l ELSE @]

\* ------------------------------------------------------------------------
\* tokenize_dataset
\* ------------------------------------------------------------------------
\* The sub-datasets of a ConcatDataset, as the naming code sees them: a Subset
\* whose inner dataset has a name or not, or another dataset with a name or not.
DatasetKinds == {"subset_named", "subset_unnamed", "named", "unnamed"}

SizeLists ==
    { sz \in UNION { [1..k -> 0..MaxLen] : k \in 1..MaxSubsets } : Sum(sz) <= MaxLen }

MaxCounts == {None} \cup { Some(n) : n \in 0..MaxCount }
MinAssistantTokens == { None, Some(0), Some(7) }

\* cumulative_sizes after the set-up loop: the running sums of the sizes.
CumulativeSizes(sizes) == [k \in 1..Len(sizes) |-> Sum(SubSeq(sizes, 1, k))]

\* "name += d.name" reads name before any iteration has bound it when the
\* first sub-dataset is not a Subset and has a name: UnboundLocalError.
NameUnbound(kinds) == kinds # <<>> /\ Head(kinds) = "named"

NewWriter == [items |-> <<>>, finalized |-> FALSE]
add_item(writer, item) == [writer EXCEPT !.items = Append(@, item)]
finalize(writer) == [writer EXCEPT !.finalized = TRUE]
OpenFile == Some([lines |-> <<>>, closed |-> FALSE])
write_line(file, line) == Some([Val(file) EXCEPT !.lines = Append(@, line)])
close(file) == IF IsNone(file) THEN file ELSE Some([Val(file) EXCEPT !.closed = TRUE])

\* The statistics print-out after the loop divides by processed_samples and
\* by accepted_samples of every per-dataset TokenStats.
PrintRaises(per) ==
    \E k \in 1..Len(per) : processed_samples(per[k]) = 0 \/ per[k].accepted_samples = 0

\* The tokens, role labels and assistant-token count the loop body builds from
\* zip(turns, turn_roles).
Zipped(f) == Min(Len(f.turns), Len(f.roles))
BuildTokens(f) == Join([k \in 1..Zipped(f) |-> encode_text(f.turns[k])])
BuildRoles(f) ==
    Join([k \in 1..Zipped(f) |->
            [j \in 1..Len(encode_text(f.turns[k])) |-> f.roles[k]]])
CountAssistant(f) ==
    Sum([k \in 1..Zipped(f) |->
            IF f.roles[k] = IntRole_Assistant THEN Len(encode_text(f.turns[k])) ELSE 0])

\* "max_count and total_stats.accepted_samples >= max_count"
MaxCountReached(mc, st) ==
    ~IsNone(mc) /\ Val(mc) # 0 /\ st.accepted_samples >= Val(mc)

\* "min_assistant_tokens is not None and num_assistant_tokens < min_assistant_tokens"
BelowMinimum(mat, n) == ~IsNone(mat) /\ n < Val(mat)

\* "x == tokens and len(tokens) == len(role_lables)"
TokenizationOk(f, toks, labels) ==
    encode_text(Join(f.turns)) = toks /\ Len(toks) = Len(labels)

\* ------------------------------------------------------------------------
\* weights2megatron.py: the command line, the argument verification and main
\* ------------------------------------------------------------------------
llama_s2layer == (7 :> 32) @@ (13 :> 40) @@ (30 :> 60) @@ (65 :> 80) @@ (70 :> 80)
llama_s2heads == (7 :> 32) @@ (13 :> 40) @@ (30 :> 52) @@ (65 :> 64) @@ (70 :> 64)
llama_s2dense == (7 :> 11008) @@ (13 :> 13824) @@ (30 :> 17920) @@ (65 :> 22016) @@
                 (70 :> 28672)
llama_s2hidden == (7 :> 4096) @@ (13 :> 5120) @@ (30 :> 6656) @@ (65 :> 8192) @@
                  (70 :> 8192)

\* argparse choices
ModelChoices == {"falcon", "llama", "llama2"}
SizeChoices == {7, 13, 30, 34, 40, 65, 70}
\* what a command line may hold: the choices, and a value outside them
ModelInputs == ModelChoices \cup {"gpt"}
SizeInputs == SizeChoices \cup {8}

\* "small arg verification": a verification that admits size 34 for llama2.
VerifiedSizesWith34(model) ==
    IF model = "falcon" THEN {7, 40}
    ELSE IF model = "llama" THEN {7, 13, 30, 65}
    ELSE {7, 13, 34, 70}

\* "small arg verification": the sizes the assertion lets through, per model.
VerifiedSizes(model) ==
    IF model = "falcon" THEN {7, 40}
    ELSE IF model = "llama" THEN {7, 13, 30, 65}
    ELSE {7, 13, 70}

\* Paths are sequences of components.  With --out absent main writes to
\* Path(f"falcon{size}b_megatron.pt").absolute().
DefaultOut(size) ==
    <<CASE size = 7 -> "falcon7b_megatron.pt"
        [] size = 13 -> "falcon13b_megatron.pt"
        [] size = 30 -> "falcon30b_megatron.pt"
        [] size = 34 -> "falcon34b_megatron.pt"
        [] size = 40 -> "falcon40b_megatron.pt"
        [] size = 65 -> "falcon65b_megatron.pt"
        [] size = 70 -> "falcon70b_megatron.pt"
        [] OTHER -> "falcon8b_megatron.pt">>
OutPath == IF IsNone(argv_out) THEN DefaultOut(argv_size) ELSE Val(argv_out)

Dir == [dir |-> TRUE]
TextFile(t) == [text |-> t]
Pickle(obj) == [pickle |-> obj]

\* The file system before the run, by what it holds at the output path.
InitialFs(existing, out) ==
    IF existing = "absent" THEN << >>
    ELSE IF existing = "empty" THEN (out :> Dir)
    ELSE (out :> Dir) @@ ((out \o <<"release">>) :> Dir)
         @@ ((out \o <<"release", "mp_rank_00">>) :> Dir)

Exists(path) == path \in DOMAIN fs

\* dict.update: the keys of new override those of old
Update(old, new) == new @@ old

\* The args dict of main before the final update (lines 174-205).
ModelArgs(model, size) ==
    IF model = "falcon"
    THEN Update(
           IF size = 7
           THEN ("num_layers" :> 32) @@ ("hidden_size" :> 4544) @@
                ("num_attention_heads" :> 71) @@ ("num_attention_heads_kv" :> 1)
           ELSE ("num_layers" :> 60) @@ ("hidden_size" :> 8192) @@
                ("num_attention_heads" :> 128) @@ ("num_attention_heads_kv" :> 8) @@
                ("parallel_layernorm" :> TRUE),
           ("tokenizer_type" :> "FalconTokenizer") @@ ("use_flash_attn" :> TRUE) @@
           ("hidden_dropout" :> "0.0") @@ ("parallel_attn" :> TRUE) @@
           ("max_position_embeddings" :> 2048) @@ ("seq_length" :> 2048))
    ELSE LET base == ("num_layers" :> llama_s2layer[size]) @@
                     ("hidden_size" :> llama_s2hidden[size]) @@
                     ("num_attention_heads" :> llama_s2heads[size]) @@
                     ("ffn_hidden_size" :> llama_s2dense[size]) @@
                     ("parallel_attn" :> FALSE) @@
                     ("make_vocab_size_divisible_by" :> 1) @@
                     ("glu_activation" :> "swiglu") @@
                     ("padded_vocab_size" :> 32000) @@
                     ("use_rms_norm" :> TRUE) @@
                     ("tie_embed_logits" :> FALSE) @@
                     ("tokenizer_type" :> "SentencePieceTokenizer")
         IN  IF model = "llama"
             THEN Update(base, ("max_position_embeddings" :> 2048) @@
                               ("seq_length" :> 2048) @@ ("layernorm_epsilon" :> "1e-6"))
             ELSE LET v2 == Update(base, ("max_position_embeddings" :> 4096) @@
                                         ("seq_length" :> 4096) @@
                                         ("layernorm_epsilon" :> "1e-5"))
                  IN  IF size >= 34 THEN Update(v2, ("num_attention_heads_kv" :> 8))
                      ELSE v2

\* The final update with the parallel sizes swapped for those of a sharded run.
CommonArgsSharded ==
    ("tensor_model_parallel_size" :> 2) @@ ("pipeline_model_parallel_size" :> 2) @@
    ("iteration" :> "release") @@ ("bias_gelu_fusion" :> FALSE) @@
    ("bias_droput_fusion" :> FALSE) @@ ("position_embedding_type" :> "rotary")

\* The final args.update (lines 207-214).
CommonArgs ==
    ("tensor_model_parallel_size" :> 1) @@ ("pipeline_model_parallel_size" :> 1) @@
    ("iteration" :> "release") @@ ("bias_gelu_fusion" :> FALSE) @@
    ("bias_droput_fusion" :> FALSE) @@ ("position_embedding_type" :> "rotary")

\* final_dict (lines 220-221); the float 3.0 is written "3.0".
FinalDict(converted, args) ==
    [iteration |-> "release", model |-> [language_model |-> converted],
     checkpoint_version |-> "3.0", args |-> args]

MainIdle ==
    /\ w_pc = "cli"
    /\ w_error = ""
    /\ argv_model = "falcon"
    /\ argv_size = 7
    /\ argv_out = None
    /\ w_existing = "absent"
    /\ fs = << >>
    /\ w_fetched = FALSE
    /\ llama_source = ""
    /\ megatron_weights = None
    /\ w_args = None

\* A command line and a file system.
MainInit ==
    /\ w_pc = "cli"
    /\ w_error = ""
    /\ argv_model \in ModelInputs
    /\ argv_size \in SizeInputs
    /\ argv_out \in {None, Some(<<"out">>)}
    /\ w_existing \in {"absent", "empty", "checkpoint"}
    /\ fs = InitialFs(w_existing, OutPath)
    /\ w_fetched = FALSE
    /\ llama_source = ""
    /\ megatron_weights = None
    /\ w_args = None

\* parser.parse_args: a value outside the choices ends the run (lines 238-251).
ParseArgs ==
    /\ w_pc = "cli"
    /\ IF argv_model \in ModelChoices /\ argv_size \in SizeChoices
       THEN w_pc' = "verify" /\ w_error' = ""
       ELSE w_pc' = "exit" /\ w_error' = "SystemExit"
    /\ UNCHANGED <<argv_model, argv_size, argv_out, w_existing, fs, w_fetched,
                   llama_source, megatron_weights, w_args>>
    /\ UNCHANGED <<tokVars, statVars, qkvVars>>

\* The assertions on args.size, then the call of main (lines 253-261).
VerifyArgs ==
    /\ w_pc = "verify"
    /\ IF argv_size \in VerifiedSizes(argv_model)
       THEN w_pc' = "main" /\ w_error' = ""
       ELSE w_pc' = "exit" /\ w_error' = "AssertionError"
    /\ UNCHANGED <<argv_model, argv_size, argv_out, w_existing, fs, w_fetched,
                   llama_source, megatron_weights, w_args>>
    /\ UNCHANGED <<tokVars, statVars, qkvVars>>

\* main fetches the weights (lines 150-163).  The hub download and merge_llama
\* are external: they deliver the weights, or fail.
FetchWeights ==
    /\ w_pc = "main"
    /\ \/ /\ w_pc' = "convert"
          /\ w_error' = ""
          /\ w_fetched' = TRUE
          /\ IF argv_model = "falcon" THEN llama_source' = ""
             ELSE llama_source' \in {"meta", "hf"}
       \/ /\ w_pc' = "exit"
          /\ w_error' = "OSError"
          /\ UNCHANGED <<w_fetched, llama_source>>
    /\ UNCHANGED <<argv_model, argv_size, argv_out, w_existing, fs,
                   megatron_weights, w_args>>
    /\ UNCHANGED <<tokVars, statVars, qkvVars>>

\* main converts the state dict and builds args (lines 165-214).  The
\* llama tables have no entry for a size they do not know: KeyError.
ConvertWeights ==
    /\ w_pc = "convert"
    /\ IF argv_model # "falcon" /\ argv_size \notin DOMAIN llama_s2layer
       THEN /\ w_pc' = "exit"
            /\ w_error' = "KeyError"
            /\ UNCHANGED <<megatron_weights, w_args>>
       ELSE /\ w_pc' = "save"
            /\ w_error' = ""
            /\ megatron_weights' =
                 Some(IF argv_model = "falcon"
                      THEN [converter |-> "falcon_to_megatron", size |-> argv_size,
                            source |-> "hf", version |-> 0]
                      ELSE [converter |-> "llama_to_megatron", size |-> argv_size,
                            source |-> llama_source,
                            version |-> IF argv_model = "llama" THEN 1 ELSE 2])
            /\ w_args' = Some(Update(ModelArgs(argv_model, argv_size), CommonArgs))
    /\ UNCHANGED <<argv_model, argv_size, argv_out, w_existing, fs, w_fetched,
                   llama_source>>
    /\ UNCHANGED <<tokVars, statVars, qkvVars>>

\* main saves the checkpoint (lines 216-223): mkdir(parents=True) of
\* out/release/mp_rank_00, which must not exist, then the two files.
SaveCheckpoint ==
    /\ w_pc = "save"
    /\ LET out == OutPath
           rank == out \o <<"release", "mp_rank_00">>
       IN  IF Exists(rank)
           THEN /\ w_pc' = "exit"
                /\ w_error' = "FileExistsError"
                /\ UNCHANGED fs
           ELSE /\ w_pc' = "tokenizer"
                /\ w_error' = ""
                /\ fs' = ((rank \o <<"model_optim_rng.pt">>) :>
                            Pickle(FinalDict(Val(megatron_weights), Val(w_args))))
                         @@ ((out \o <<"latest_checkpointed_iteration.txt">>) :>
                               TextFile("release"))
                         @@ (rank :> Dir) @@ ((out \o <<"release">>) :> Dir)
                         @@ (out :> Dir) @@ fs
    /\ UNCHANGED <<argv_model, argv_size, argv_out, w_existing, w_fetched,
                   llama_source, megatron_weights, w_args>>
    /\ UNCHANGED <<tokVars, statVars, qkvVars>>

\* For llama2 from the hub, main copies tokenizer.model next to the checkpoint
\* (lines 225-234); then it is done.
CopyTokenizer ==
    /\ w_pc = "tokenizer"
    /\ w_pc' = "done"
    /\ fs' = IF argv_model = "llama2" /\ llama_source = "hf"
             THEN ((OutPath \o <<"tokenizer.model">>) :> TextFile("vocab_file")) @@ fs
             ELSE fs
    /\ UNCHANGED <<w_error, argv_model, argv_size, argv_out, w_existing, w_fetched,
                   llama_source, megatron_weights, w_args>>
    /\ UNCHANGED <<tokVars, statVars, qkvVars>>

NextMain == ParseArgs \/ VerifyArgs \/ FetchWeights \/ ConvertWeights
              \/ SaveCheckpoint \/ CopyTokenizer

\* ------------------------------------------------------------------------
\* weights2megatron.py: llama_to_megatron, the loop over the layers
\*
\* A tensor is the sequence of its rows (dim 0); a row of an input weight is
\* named by the weight, the layer and the row number.  The configurations are
\* scaled down from the size tables: n_kv_heads divides n_heads, as it does for
\* every size of the tables (n_kv_heads is n_heads or 8, n_heads is 64 then).
\* ------------------------------------------------------------------------
Row(w, l, r) == [w |-> w, layer |-> l, row |-> r]
Tensor(w, l, rows) == [r \in 1..rows |-> Row(w, l, r)]

\* The state dict of layer l as merge_llama delivers it.
InputWeight(name, l) ==
    IF name = "attention.wq.weight" THEN Tensor("wq", l, n_heads * n_hidden_per_head)
    ELSE IF name = "attention.wk.weight" THEN Tensor("wk", l, n_kv_heads * n_hidden_per_head)
    ELSE IF name = "attention.wv.weight" THEN Tensor("wv", l, n_kv_heads * n_hidden_per_head)
    ELSE Tensor(name, l, 1)

LayerKeys ==
    {"attention.wo.weight", "ffn_norm.weight", "attention_norm.weight",
     "feed_forward.w2.weight", "feed_forward.w3.weight", "feed_forward.w1.weight",
     "attention.wq.weight", "attention.wk.weight", "attention.wv.weight"}
ReleasedKeys ==
    {"feed_forward.w3.weight", "feed_forward.w1.weight", "attention.wq.weight",
     "attention.wk.weight", "attention.wv.weight"}

\* torch.split(w, size, dim=0): chunks of size rows, the last one shorter if
\* the rows do not divide.
split(w, size) ==
    [h \in 1..((Len(w) + size - 1) \div size) |->
        SubSeq(w, (h - 1) * size + 1, Min(h * size, Len(w)))]

\* permute: permute_qkv of the external module for hub weights, an unknown
\* function of the tensor; nothing for Meta weights.
permute(qkv_w) ==
    IF source = "hf" THEN <<[permute_qkv |-> qkv_w]>> ELSE qkv_w

\* rearrange_qkv with the key and the value head of a group in the other order.
rearrange_qkv_vk(wq, wk, wv) ==
    LET qs == split(wq, n_hidden_per_head)
        ks == split(wk, n_hidden_per_head)
        vs == split(wv, n_hidden_per_head)
        n_qs_per_kv == n_heads \div n_kv_heads
        group(g) == Join([j \in 1..n_qs_per_kv |-> qs[(g - 1) * n_qs_per_kv + j]])
                       \o vs[g] \o ks[g]
    IN  permute(Join([g \in 1..n_kv_heads |-> group(g)]))

\* rearrange_qkv, past its three assertions.
rearrange_qkv(wq, wk, wv) ==
    LET qs == split(wq, n_hidden_per_head)
        ks == split(wk, n_hidden_per_head)
        vs == split(wv, n_hidden_per_head)
        n_qs_per_kv == n_heads \div n_kv_heads
        group(g) == Join([j \in 1..n_qs_per_kv |-> qs[(g - 1) * n_qs_per_kv + j]])
                       \o ks[g] \o vs[g]
    IN  permute(Join([g \in 1..n_kv_heads |-> group(g)]))

\* "assert len(wq) == n_heads" and the two like it
SplitAsserts(wq, wk, wv) ==
    /\ Len(split(wq, n_hidden_per_head)) = n_heads
    /\ Len(split(wk, n_hidden_per_head)) = n_kv_heads
    /\ Len(split(wv, n_hidden_per_head)) = n_kv_heads

QkvIdle ==
    /\ q_pc = "start"
    /\ source = "meta"
    /\ n_layer = 1
    /\ n_heads = 1
    /\ n_kv_heads = 1
    /\ n_hidden_per_head = 1
    /\ weights = {}
    /\ layer = 0
    /\ transformer = <<>>
    /\ independent = None

\* The call: a source, a configuration and the state dict of that shape.
QkvInit ==
    /\ q_pc = "start"
    /\ source \in {"meta", "hf"}
    /\ n_layer \in 1..MaxLayers
    /\ n_heads \in 1..MaxHeads
    /\ n_kv_heads \in { k \in 1..n_heads : n_heads % k = 0 }
    /\ n_hidden_per_head \in 1..MaxHeadDim
    /\ weights = ((0..(n_layer - 1)) \X LayerKeys)
                    \cup {<<-1, "tok_embeddings.weight">>, <<-1, "norm.weight">>,
                          <<-1, "output.weight">>}
    /\ layer = 0
    /\ transformer = <<>>
    /\ independent = None

\* The weights independent of layers (lines 108-111).
IndependentWeights ==
    /\ q_pc = "start"
    /\ q_pc' = "layers"
    /\ independent' = Some([word_embeddings |-> Tensor("tok_embeddings.weight", -1, 1),
                            final_layernorm |-> Tensor("norm.weight", -1, 1),
                            lm_head |-> Tensor("output.weight", -1, 1)])
    /\ UNCHANGED <<source, n_layer, n_heads, n_kv_heads, n_hidden_per_head, weights,
                   layer, transformer>>
    /\ UNCHANGED <<tokVars, statVars, mainVars>>

\* One iteration of the loop over the layers (lines 114-142).
ConvertLayer ==
    /\ q_pc = "layers"
    /\ layer < n_layer
    /\ LET wq == InputWeight("attention.wq.weight", layer)
           wk == InputWeight("attention.wk.weight", layer)
           wv == InputWeight("attention.wv.weight", layer)
       IN  IF ~({layer} \X LayerKeys \subseteq weights)
           THEN /\ q_pc' = "raised"
                /\ UNCHANGED <<weights, layer, transformer>>
           ELSE IF ~SplitAsserts(wq, wk, wv)
           THEN /\ q_pc' = "raised"
                /\ UNCHANGED <<weights, layer, transformer>>
           ELSE /\ transformer' = Append(transformer,
                     [dense |-> InputWeight("attention.wo.weight", layer),
                      post_attention_layernorm |-> InputWeight("ffn_norm.weight", layer),
                      input_layernorm |-> InputWeight("attention_norm.weight", layer),
                      dense_4h_to_h |-> InputWeight("feed_forward.w2.weight", layer),
                      dense_h_to_4h |-> InputWeight("feed_forward.w3.weight", layer)
                                          \o InputWeight("feed_forward.w1.weight", layer),
                      query_key_value |-> rearrange_qkv(wq, wk, wv)])
                /\ weights' = weights \ ({layer} \X ReleasedKeys)
                /\ layer' = layer + 1
                /\ UNCHANGED q_pc
    /\ UNCHANGED <<source, n_layer, n_heads, n_kv_heads, n_hidden_per_head, independent>>
    /\ UNCHANGED <<tokVars, statVars, mainVars>>

\* The loop is over: the function returns the three dicts (lines 144-145).
ReturnWeights ==
    /\ q_pc = "layers"
    /\ layer = n_layer
    /\ q_pc' = "done"
    /\ UNCHANGED <<source, n_layer, n_heads, n_kv_heads, n_hidden_per_head, weights,
                   layer, transformer, independent>>
    /\ UNCHANGED <<tokVars, statVars, mainVars>>

NextQkv == IndependentWeights \/ ConvertLayer \/ ReturnWeights

TokInit ==
    /\ pc = "start"
    /\ error = ""
    /\ dataset_len = 0
    /\ max_count = None
    /\ min_assistant_tokens = None
    /\ check_tokenization = TRUE
    /\ write_json = FALSE
    /\ total_stats = TokenStats(0)
    /\ per_dataset_stats = <<>>
    /\ cumulative_sizes = <<>>
    /\ subset_index = 0
    /\ i = 0
    /\ messages = NoSample
    /\ tokens = <<>>
    /\ role_lables = <<>>
    /\ num_assistant_tokens = 0
    /\ token_writer = NewWriter
    /\ role_writer = NewWriter
    /\ jsonl_file = None
    /\ outcome = "none"

StatsIdle == stats = TokenStats(0) /\ added = <<>> /\ skipped = <<>>

\* The call, up to the start of the loop (lines 150-198).
Call ==
    /\ pc = "start"
    /\ \E concat \in BOOLEAN, sizes \in SizeLists, mc \in MaxCounts,
          mat \in MinAssistantTokens, ct \in BOOLEAN, wj \in BOOLEAN :
         \E kinds \in [1..Len(sizes) -> DatasetKinds] :
            /\ concat \/ Len(sizes) = 1
            /\ max_count' = mc
            /\ min_assistant_tokens' = mat
            /\ check_tokenization' = ct
            /\ write_json' = wj
            /\ dataset_len' = Sum(sizes)
            /\ total_stats' = TokenStats(Sum(sizes))
            /\ IF concat /\ NameUnbound(kinds)
               THEN /\ pc' = "raised"
                    /\ error' = "UnboundLocalError"
                    /\ UNCHANGED <<per_dataset_stats, cumulative_sizes, jsonl_file>>
               ELSE /\ pc' = "loop"
                    /\ error' = ""
                    /\ per_dataset_stats' =
                         IF concat THEN [k \in 1..Len(sizes) |-> TokenStats(sizes[k])]
                         ELSE <<>>
                    /\ cumulative_sizes' =
                         IF concat THEN CumulativeSizes(sizes) ELSE <<>>
                    /\ jsonl_file' = IF wj THEN OpenFile ELSE None
    /\ UNCHANGED <<subset_index, i, messages, tokens, role_lables,
                   num_assistant_tokens, token_writer, role_writer, outcome>>
    /\ UNCHANGED <<statVars, mainVars, qkvVars>>

\* The finally block, then the statistics print-out.
Finish(per) ==
    /\ token_writer' = finalize(token_writer)
    /\ role_writer' = finalize(role_writer)
    /\ jsonl_file' = close(jsonl_file)
    /\ IF PrintRaises(per)
       THEN pc' = "raised" /\ error' = "ZeroDivisionError"
       ELSE pc' = "done" /\ error' = ""

\* An exception inside the try block: the finally block, and the call raises.
Raise(e, tw, rw, jf) ==
    /\ token_writer' = finalize(tw)
    /\ role_writer' = finalize(rw)
    /\ jsonl_file' = close(jf)
    /\ pc' = "raised"
    /\ error' = e

\* One iteration of "for i, messages in enumerate(tqdm(dataset))" (lines 199-245).
\* The progress print at every 10000th sample changes no state.
LoopBody ==
    /\ pc = "loop"
    /\ i < dataset_len
    /\ \E m \in Samples :
        LET f == format_conversation(m)
            toks == BuildTokens(f)
            labels == BuildRoles(f)
            nat == CountAssistant(f)
            si == IF i >= cumulative_sizes[subset_index + 1]
                  THEN subset_index + 1 ELSE subset_index
        IN
        /\ messages' = m
        /\ i' = i + 1
        /\ IF subset_index + 1 > Len(cumulative_sizes)
           THEN \* cumulative_sizes[subset_index]: IndexError
                /\ Raise("IndexError", token_writer, role_writer, jsonl_file)
                /\ outcome' = "index_error"
                /\ UNCHANGED <<subset_index, tokens, role_lables, num_assistant_tokens,
                               total_stats, per_dataset_stats>>
           ELSE
                /\ subset_index' = si
                /\ tokens' = toks
                /\ role_lables' = labels
                /\ num_assistant_tokens' = nat
                /\ IF BelowMinimum(min_assistant_tokens, nat)
                   THEN /\ total_stats' = skip(total_stats, toks)
                        /\ IF si + 1 > Len(per_dataset_stats)
                           THEN /\ Raise("IndexError", token_writer, role_writer, jsonl_file)
                                /\ outcome' = "index_error"
                                /\ UNCHANGED per_dataset_stats
                           ELSE /\ outcome' = "skipped"
                                /\ per_dataset_stats' =
                                     [per_dataset_stats EXCEPT ![si + 1] = skip(@, toks)]
                                /\ UNCHANGED <<pc, error, token_writer, role_writer,
                                               jsonl_file>>
                   ELSE IF check_tokenization /\ ~TokenizationOk(f, toks, labels)
                   THEN /\ Raise("AssertionError", token_writer, role_writer, jsonl_file)
                        /\ outcome' = "assert_failed"
                        /\ UNCHANGED <<total_stats, per_dataset_stats>>
                   ELSE LET tw == add_item(token_writer, toks)
                            rw == add_item(role_writer, labels)
                            ts == add(total_stats, toks)
                        IN  /\ total_stats' = ts
                            /\ IF si + 1 > Len(per_dataset_stats)
                               THEN /\ Raise("IndexError", tw, rw, jsonl_file)
                                    /\ outcome' = "index_error"
                                    /\ UNCHANGED per_dataset_stats
                               ELSE LET per == [per_dataset_stats EXCEPT
                                                   ![si + 1] = add(@, toks)]
                                        jf == IF IsNone(jsonl_file) THEN jsonl_file
                                              ELSE write_line(jsonl_file, Join(f.turns))
                                    IN  /\ per_dataset_stats' = per
                                        /\ outcome' = "accepted"
                                        /\ IF MaxCountReached(max_count, ts)
                                           THEN \* break
                                                /\ token_writer' = finalize(tw)
                                                /\ role_writer' = finalize(rw)
                                                /\ jsonl_file' = close(jf)
                                                /\ IF PrintRaises(per)
                                                   THEN pc' = "raised"
                                                        /\ error' = "ZeroDivisionError"
                                                   ELSE pc' = "done" /\ error' = ""
                                           ELSE /\ token_writer' = tw
                                                /\ role_writer' = rw
                                                /\ jsonl_file' = jf
                                                /\ UNCHANGED <<pc, error>>
    /\ UNCHANGED <<dataset_len, max_count, min_assistant_tokens, check_tokenization,
                   write_json, cumulative_sizes>>
    /\ UNCHANGED <<statVars, mainVars, qkvVars>>

\* The dataset is exhausted: the loop ends, then the finally block and the print-out.
LoopEnd ==
    /\ pc = "loop"
    /\ i = dataset_len
    /\ Finish(per_dataset_stats)
    /\ UNCHANGED <<dataset_len, max_count, min_assistant_tokens, check_tokenization,
                   write_json, total_stats, per_dataset_stats, cumulative_sizes,
                   subset_index, i, messages, tokens, role_lables,
                   num_assistant_tokens, outcome>>
    /\ UNCHANGED <<statVars, mainVars, qkvVars>>

Init == TokInit /\ StatsIdle /\ MainIdle /\ QkvIdle
Next == Call \/ LoopBody \/ LoopEnd
Spec == Init /\ [][Next]_vars
InitMain == TokInit /\ StatsIdle /\ MainInit /\ QkvIdle
SpecMain == InitMain /\ [][NextMain]_vars
InitQkv == TokInit /\ StatsIdle /\ MainIdle /\ QkvInit
SpecQkv == InitQkv /\ [][NextQkv]_vars

\* ------------------------------------------------------------------------
\* Claims about tokenize_dataset (specification Spec)
\* ------------------------------------------------------------------------
Last(s) == s[Len(s)]
SumOver(per, field) == Sum([k \in 1..Len(per) |-> per[k][field]])

\* C3: every sample the loop has iterated over is counted exactly once in
\* total_stats, as accepted or as skipped: once the call has begun,
\* processed_samples of total_stats equals the number of samples the loop has
\* taken from the dataset so far, and never exceeds total_samples.
C3_EverySampleCounted ==
    pc # "start" =>
        /\ processed_samples(total_stats) = i
        /\ processed_samples(total_stats) <= total_stats.total_samples

\* C6: when max_count = n is given, at most n examples are processed, accepted
\* and skipped ones counted together, whatever min_assistant_tokens is.  (Stated
\* for n >= 1, so that a violation does not rest on n = 0.)
C6_MaxCountLimitsProcessed ==
    (~IsNone(max_count) /\ Val(max_count) >= 1) =>
        processed_samples(total_stats) <= Val(max_count)

\* C8: on a ConcatDataset the accepted samples, skipped samples and accepted
\* tokens of total_stats are the sums of those of the per-dataset stats, and no
\* sub-dataset's processed_samples exceeds its total_samples, for every list of
\* sub-dataset sizes, empty sub-datasets included.
C8_PerDatasetAccounting ==
    (pc # "start" /\ per_dataset_stats # <<>>) =>
        /\ total_stats.accepted_samples = SumOver(per_dataset_stats, "accepted_samples")
        /\ total_stats.skipped_samples = SumOver(per_dataset_stats, "skipped_samples")
        /\ total_stats.accepted_tokens = SumOver(per_dataset_stats, "accepted_tokens")
        /\ \A k \in 1..Len(per_dataset_stats) :
              processed_samples(per_dataset_stats[k]) <= per_dataset_stats[k].total_samples

\* C9: with min_assistant_tokens = m the sample of the latest iteration has been
\* written exactly when its number of assistant tokens is at least m; below m it
\* is counted as skipped; what the two writers and the jsonl file hold are the
\* accepted samples only; with min_assistant_tokens = None nothing is skipped.
C9_WrittenExactlyAtOrAboveMinimum ==
    /\ (~IsNone(min_assistant_tokens)
          /\ outcome \in {"accepted", "skipped", "assert_failed"}) =>
          /\ (outcome = "accepted") <=> num_assistant_tokens >= Val(min_assistant_tokens)
          /\ num_assistant_tokens < Val(min_assistant_tokens) => outcome = "skipped"
    /\ Len(token_writer.items) = total_stats.accepted_samples
    /\ Len(role_writer.items) = total_stats.accepted_samples
    /\ ~IsNone(jsonl_file) => Len(Val(jsonl_file).lines) = total_stats.accepted_samples
    /\ IsNone(min_assistant_tokens) => total_stats.skipped_samples = 0

\* C10: a DatasetEntryLm sample that is not skipped is written: the token item
\* is the tokenization of the entry's whole text and the role item has the
\* same length with every label 3.
C10_LmEntryWrittenWhole ==
    (messages.kind = "lm" /\ outcome \in {"accepted", "assert_failed"}) =>
        /\ outcome = "accepted"
        /\ Last(token_writer.items) = encode_text(messages.text)
        /\ Last(role_writer.items) =
              [k \in 1..Len(encode_text(messages.text)) |-> LmRole]

\* The dataset of the call is not a ConcatDataset: the set-up of lines 160-177
\* was not entered, so the call went on with cumulative_sizes still empty.
NotConcat ==
    /\ pc # "start"
    /\ error # "UnboundLocalError"
    /\ cumulative_sizes = <<>>

\* C11: on a non-empty dataset that is not a ConcatDataset the call does not
\* raise, there are no per-dataset stats, every sample taken from the dataset
\* is counted in total_stats as accepted or skipped, and a call that has
\* finished without max_count has processed the whole dataset.
C11_AnyDatasetWorks ==
    (NotConcat /\ dataset_len > 0) =>
        /\ pc # "raised"
        /\ per_dataset_stats = <<>>
        /\ processed_samples(total_stats) = i
        /\ (pc = "done" /\ IsNone(max_count)) => i = dataset_len

\* ------------------------------------------------------------------------
\* TokenStats on its own: any sequence of add and skip calls (SpecStats)
\* ------------------------------------------------------------------------
TokenList(l) == [k \in 1..l |-> 0]

StatsAdd ==
    /\ Len(added) + Len(skipped) < MaxCalls
    /\ \E l \in 0..MaxTokens :
          /\ stats' = add(stats, TokenList(l))
          /\ added' = Append(added, l)
    /\ UNCHANGED skipped
    /\ UNCHANGED <<tokVars, mainVars, qkvVars>>

StatsSkip ==
    /\ Len(added) + Len(skipped) < MaxCalls
    /\ \E l \in 0..MaxTokens :
          /\ stats' = skip(stats, TokenList(l))
          /\ skipped' = Append(skipped, l)
    /\ UNCHANGED added
    /\ UNCHANGED <<tokVars, mainVars, qkvVars>>

NextStats == StatsAdd \/ StatsSkip
SpecStats == Init /\ [][NextStats]_vars

\* C4: after any sequence of add and skip calls, skipped_tokens is the sum of
\* the token counts of all the samples passed to skip.
C4_SkippedTokensAccumulate == stats.skipped_tokens = Sum(skipped)

\* C5: after any sequence of add and skip calls, accepted_samples is the number
\* and accepted_tokens the sum of the lengths passed to add, min_tokens and
\* max_tokens are the smallest and the largest of those lengths, min_tokens is
\* None exactly when nothing has been added (max_tokens is then 0); skip calls,
\* which leave the lengths passed to add as they are, change none of the four.
C5_AcceptedStats ==
    /\ stats.accepted_samples = Len(added)
    /\ stats.accepted_tokens = Sum(added)
    /\ IsNone(stats.min_tokens) <=> added = <<>>
    /\ added = <<>> => stats.max_tokens = 0
    /\ added # <<>> =>
          /\ \E k \in 1..Len(added) : added[k] = Val(stats.min_tokens)
          /\ \A k \in 1..Len(added) : added[k] >= Val(stats.min_tokens)
          /\ \E k \in 1..Len(added) : added[k] = stats.max_tokens
          /\ \A k \in 1..Len(added) : added[k] <= stats.max_tokens

\* Lengths were added in decreasing and in increasing order, with a skip between.
C5_Witness ==
    /\ Len(added) >= 3
    /\ added[1] > added[2]
    /\ added[2] < added[3]
    /\ skipped # <<>>
    /\ Last(skipped) > stats.max_tokens

\* ------------------------------------------------------------------------
\* Claims about weights2megatron.py (specifications SpecMain and SpecQkv)
\* ------------------------------------------------------------------------
AcceptedPairs ==
    {<<"falcon", 7>>, <<"falcon", 40>>,
     <<"llama", 7>>, <<"llama", 13>>, <<"llama", 30>>, <<"llama", 65>>,
     <<"llama2", 7>>, <<"llama2", 13>>, <<"llama2", 70>>}
Accepted == <<argv_model, argv_size>> \in AcceptedPairs
InMain == w_pc \in {"main", "convert", "save", "tokenizer", "done"}
               \/ w_error \in {"OSError", "KeyError", "FileExistsError"}
Rejected == w_pc = "exit" /\ w_error \in {"SystemExit", "AssertionError"}

\* C1: a run of main for an accepted (model, size) pair whose output directory
\* did not exist fails only if fetching the weights fails, and otherwise ends
\* with the output directory in place, latest_checkpointed_iteration.txt holding
\* exactly "release", and release/mp_rank_00/model_optim_rng.pt holding a dict
\* with iteration "release", checkpoint_version 3.0 and args of tensor and
\* pipeline model parallel size 1.
C1_CheckpointLayout ==
    (InMain /\ w_existing = "absent") =>
        /\ w_pc = "exit" => w_error = "OSError"
        /\ w_pc = "done" =>
            LET out == OutPath
                latest == out \o <<"latest_checkpointed_iteration.txt">>
                ckpt == out \o <<"release", "mp_rank_00", "model_optim_rng.pt">>
            IN  /\ Exists(out) /\ fs[out] = Dir
                /\ Exists(latest) /\ fs[latest] = TextFile("release")
                /\ Exists(ckpt)
                /\ fs[ckpt].pickle.iteration = "release"
                /\ fs[ckpt].pickle.checkpoint_version = "3.0"
                /\ fs[ckpt].pickle.args["tensor_model_parallel_size"] = 1
                /\ fs[ckpt].pickle.args["pipeline_model_parallel_size"] = 1

\* The run of the test suite: llama2 of size 7 into a fresh --out directory.
C1_Witness ==
    /\ w_pc = "done"
    /\ w_existing = "absent"
    /\ argv_model = "llama2" /\ argv_size = 7 /\ argv_out = Some(<<"out">>)

\* C2: main is called exactly for the pairs falcon 7, 40; llama 7, 13, 30, 65;
\* llama2 7, 13, 70.  Every other command line, size 34 included, is rejected
\* before main is called: no weights are fetched and the file system is as it
\* was.
C2_ArgumentVerification ==
    /\ InMain => Accepted
    /\ Rejected => ~Accepted
    /\ (Accepted /\ w_pc \notin {"cli", "verify"}) => InMain
    /\ ~Accepted => (~w_fetched /\ fs = InitialFs(w_existing, OutPath))

\* llama2 of size 34, a size --size allows, stopped by the assertion.
C2_Witness ==
    /\ w_pc = "exit"
    /\ w_error = "AssertionError"
    /\ argv_model = "llama2" /\ argv_size = 34
    /\ w_existing = "checkpoint"

\* The head blocks of the inputs, by their row names.
HeadBlock(w, l, h) ==
    [r \in 1..n_hidden_per_head |-> Row(w, l, (h - 1) * n_hidden_per_head + r)]
InputBlocks(l) ==
    { HeadBlock("wq", l, h) : h \in 1..n_heads }
      \cup { HeadBlock(w, l, h) : w \in {"wk", "wv"}, h \in 1..n_kv_heads }
\* Block p (from 0) of the fused weight of layer l (from 0).
FusedBlock(l, p) ==
    SubSeq(transformer[l + 1].query_key_value,
           p * n_hidden_per_head + 1, (p + 1) * n_hidden_per_head)

====
